---- MODULE Spec2Model ----
(***************************************************************************)
(* Outfit / pose history state machine of the virtual try-on application.  *)
(*                                                                         *)
(* The model follows App (the session controller), the Canvas pose         *)
(* navigation and the WardrobePanel click handler.  React state is the     *)
(* set of VARIABLES; a handler reads the values of the render it was       *)
(* created in (its closure) and writes through setters.  A setter called   *)
(* with a value overwrites; a setter called with an updater function is    *)
(* applied to the state current when the update is processed.  The code    *)
(* after an await runs later, as a separate step, still reading the        *)
(* closure of the render in which the handler was created.                 *)
(*                                                                         *)
(* trim and toLowerCase are computed on the characters of a string, not   *)
(* assumed.  Images are opaque references:                                 *)
(* positive integers, 0 standing for null / undefined.                     *)
(*                                                                         *)
(* Not modelled: loadingMessage and isSheetCollapsed (presentation only),  *)
(* and the name and url of a wardrobe item (only its id is compared).      *)
(***************************************************************************)
EXTENDS Integers, Sequences, FiniteSets, TLC

\* ------------------------------------------------------------------ bounds
\* Gateway calls (apply-garment, repose, re-background) issued in one run.
MaxCalls == 3
\* urlToFile fetches (wardrobe clicks) outstanding at the same time.
MaxFetches == 2
\* Custom garment uploads in one run.
MaxUploads == 1
\* Models finalized in one run (sessions).
MaxSessions == 2
\* Candidates in one Gateway response.
MaxCandidates == 2
\* Parts in the content of one candidate.
MaxParts == 2

\* A run is explored under one of three budgets: a long one whose garments
\* are uploaded, one with overlapping wardrobe fetches, and a short one with
\* a second session.
Budgets ==
    {[calls    |-> MaxCalls,
      fetches  |-> MaxFetches - 2,
      uploads  |-> MaxUploads,
      sessions |-> MaxSessions - 1],
     [calls    |-> MaxCalls - 1,
      fetches  |-> MaxFetches,
      uploads  |-> MaxUploads - 1,
      sessions |-> MaxSessions - 1],
     [calls    |-> MaxCalls - 2,
      fetches  |-> MaxFetches - 1,
      uploads  |-> MaxUploads,
      sessions |-> MaxSessions]}

\* ----------------------------------------------------------------- strings
\* A string is held as a TLA+ string; Characters gives the characters of
\* every string the model can produce, so that trim and toLowerCase are
\* computed character by character.
StringTable == {
    [text |-> "Full frontal view, hands on hips",
     chars |-> <<"F","u","l","l"," ","f","r","o","n","t","a","l"," ","v","i","e","w",","," ","h","a","n","d","s"," ","o","n"," ","h","i","p","s">>],
    [text |-> "Slightly turned, 3/4 view",
     chars |-> <<"S","l","i","g","h","t","l","y"," ","t","u","r","n","e","d",","," ","3","/","4"," ","v","i","e","w">>],
    [text |-> "Side profile view",
     chars |-> <<"S","i","d","e"," ","p","r","o","f","i","l","e"," ","v","i","e","w">>],
    [text |-> "Jumping in the air, mid-action shot",
     chars |-> <<"J","u","m","p","i","n","g"," ","i","n"," ","t","h","e"," ","a","i","r",","," ","m","i","d","-","a","c","t","i","o","n"," ","s","h","o","t">>],
    [text |-> "Walking towards camera",
     chars |-> <<"W","a","l","k","i","n","g"," ","t","o","w","a","r","d","s"," ","c","a","m","e","r","a">>],
    [text |-> "Leaning against a wall",
     chars |-> <<"L","e","a","n","i","n","g"," ","a","g","a","i","n","s","t"," ","a"," ","w","a","l","l">>],
    [text |-> "side PROFILE VIEW",
     chars |-> <<"s","i","d","e"," ","P","R","O","F","I","L","E"," ","V","I","E","W">>],
    [text |-> " Dab ",
     chars |-> <<" ","D","a","b"," ">>],
    [text |-> "Dab",
     chars |-> <<"D","a","b">>],
    [text |-> "dab",
     chars |-> <<"d","a","b">>],
    [text |-> "  ",
     chars |-> <<" "," ">>],
    [text |-> "",
     chars |-> <<>>],
    [text |-> "undefined",
     chars |-> <<"u","n","d","e","f","i","n","e","d">>] }

Characters(s) == (CHOOSE e \in StringTable : e.text = s).chars

Text(cs) == (CHOOSE e \in StringTable : e.chars = cs).text

UpperCaseLetters ==
    <<"A","B","C","D","E","F","G","H","I","J","K","L","M",
      "N","O","P","Q","R","S","T","U","V","W","X","Y","Z">>

LowerCaseLetters ==
    <<"a","b","c","d","e","f","g","h","i","j","k","l","m",
      "n","o","p","q","r","s","t","u","v","w","x","y","z">>

WhiteSpace == {" ", "\t", "\n"}

\* String.prototype.toLowerCase, one character.
toLowerCaseChar(c) ==
    IF \E i \in 1..Len(UpperCaseLetters) : UpperCaseLetters[i] = c
    THEN LowerCaseLetters[CHOOSE i \in 1..Len(UpperCaseLetters) :
                              UpperCaseLetters[i] = c]
    ELSE c

\* The characters of s.toLowerCase().
toLowerCaseCharacters(cs) == [i \in 1..Len(cs) |-> toLowerCaseChar(cs[i])]

\* The characters of s.trim(): leading and trailing white space dropped.
trimCharacters(cs) ==
    LET keep == {i \in 1..Len(cs) : cs[i] \notin WhiteSpace}
    IN  IF keep = {} THEN <<>>
        ELSE LET lo == CHOOSE i \in keep : \A j \in keep : i <= j
                 hi == CHOOSE i \in keep : \A j \in keep : j <= i
             IN  SubSeq(cs, lo, hi)

\* Both conversions, computed once for every string of StringTable.
Conversions ==
    [s \in {e.text : e \in StringTable} |->
        [lower   |-> toLowerCaseCharacters(Characters(s)),
         trimmed |-> Text(trimCharacters(Characters(s)))]]

\* String.prototype.toLowerCase; the result is given by its characters.
toLowerCase(s) == Conversions[s].lower

\* String.prototype.trim.
trim(s) == Conversions[s].trimmed

\* The value undefined where a string is expected (an out-of-range array
\* read); it is no string of StringTable.
Undefined == "(undefined)"

\* The string "undefined": what undefined becomes when used as a property key.
UndefinedKey == "undefined"

\* ToPropertyKey: a computed property name [v] or an index o[v].
PropertyKey(v) == IF v = Undefined THEN UndefinedKey ELSE v

\* JavaScript truthiness of a string-or-undefined value.
Truthy(v) == v # Undefined /\ v # ""

\* arr[i] on a JavaScript array of strings, 0-based; undefined when out of
\* range.
At(arr, i) == IF i >= 0 /\ i < Len(arr) THEN arr[i + 1] ELSE Undefined

\* Array.prototype.findIndex, 0-based; -1 when absent.  tests[i] is the
\* callback's result for element i of the array.
findIndex(tests) ==
    LET from[i \in 1..(Len(tests) + 1)] ==
            IF i > Len(tests) THEN -1
            ELSE IF tests[i] THEN i - 1
            ELSE from[i + 1]
    IN  from[1]

\* Array.prototype.indexOf.
indexOf(arr, v) == findIndex([i \in 1..Len(arr) |-> arr[i] = v])

\* Array.prototype.filter; keep[i] is the callback's result for element i.
filter(arr, keep) ==
    LET upTo[n \in 0..Len(arr)] ==
            IF n = 0 THEN <<>>
            ELSE IF keep[n] THEN Append(upTo[n - 1], arr[n])
            ELSE upTo[n - 1]
    IN  upTo[Len(arr)]

\* Array.prototype.slice(0, n).
slice0(arr, n) == SubSeq(arr, 1, IF n < Len(arr) THEN n ELSE Len(arr))

\* ------------------------------------------------------------ program data
DEFAULT_POSE_INSTRUCTIONS == <<
    "Full frontal view, hands on hips",
    "Slightly turned, 3/4 view",
    "Side profile view",
    "Jumping in the air, mid-action shot",
    "Walking towards camera",
    "Leaning against a wall" >>

defaultWardrobe == <<
    [id |-> "gemini-sweat"],
    [id |-> "gemini-tee"],
    [id |-> "vto-backpack"],
    [id |-> "vto-necklace"],
    [id |-> "vto-watch"] >>

\* garment: null of the root layer.
NullGarment == [null |-> TRUE]

\* null / undefined where an image reference is expected.
NullImage == 0

\* error: null.
NullError == "null"

\* ------------------------------------------------------------ input choices
\* Text typed into the custom pose box: a case variant of a default
\* instruction, a new pose with surrounding blanks, a case variant of that
\* new pose, and a blank text.
PosePrompts == {"side PROFILE VIEW", " Dab ", "dab", "  "}

\* Wardrobe tiles the user clicks: the first two seed items and any item
\* uploaded during the run.
ClickableIds == {"gemini-sweat", "gemini-tee", "custom-1", "custom-2"}

\* Pose menu entries the user clicks (0-based catalog positions).
PoseChoices == {0, 1, 2, 6}

\* The standardized model image handed to finalizeModel in session n.
ModelImage(n) == n

\* The image a Gateway call returns: a fresh reference per call.
GatewayImage(id) == 10 + id

\* The id given to the n-th uploaded garment (custom-${Date.now()}).
CustomId(n) == IF n = 1 THEN "custom-1" ELSE "custom-2"

\* ------------------------------------------------------------------- state
VARIABLES
    modelImageUrl,       \* useState<string | null>
    outfitHistory,       \* useState<OutfitLayer[]>
    currentOutfitIndex,  \* useState(0)
    isLoading,           \* useState(false)
    error,               \* useState<string | null>
    currentPoseIndex,    \* useState(0)
    poseInstructions,    \* useState<string[]>
    wardrobe,            \* useState<WardrobeItem[]>
    calls,               \* Gateway calls awaiting their response
    fetches,             \* urlToFile fetches awaiting their response
    crashed,             \* a state updater threw while rendering
    nCalls,              \* Gateway calls issued so far
    nUploads,            \* garments uploaded so far
    nSessions,           \* models finalized so far
    budget,              \* the budget of this run (never changes)
    last                 \* the last step that changed something (not read
                         \* by the code; properties refer to it)

appState == <<modelImageUrl, outfitHistory, currentOutfitIndex, isLoading,
              error, currentPoseIndex, poseInstructions, wardrobe>>

counters == <<nCalls, nUploads, nSessions, budget>>

vars == <<modelImageUrl, outfitHistory, currentOutfitIndex, isLoading,
          error, currentPoseIndex, poseInstructions, wardrobe,
          calls, fetches, crashed, nCalls, nUploads, nSessions, budget,
          last>>

\* Everything but the record of the last step.
program == <<modelImageUrl, outfitHistory, currentOutfitIndex, isLoading,
             error, currentPoseIndex, poseInstructions, wardrobe,
             calls, fetches, crashed, nCalls, nUploads, nSessions, budget>>

\* ------------------------------------------------------------- pose images
\* poseImages is an object used as a map; its keys keep insertion order.
\* It is a sequence of [key, url] entries, one per key.

\* obj[key]; undefined (NullImage) when the key is absent.
Get(poseImages, key) ==
    IF \E i \in 1..Len(poseImages) : poseImages[i].key = PropertyKey(key)
    THEN poseImages[CHOOSE i \in 1..Len(poseImages) :
                        poseImages[i].key = PropertyKey(key)].url
    ELSE NullImage

\* obj[key] = url; an existing key keeps its position, a new key goes last.
Put(poseImages, key, url) ==
    IF \E i \in 1..Len(poseImages) : poseImages[i].key = PropertyKey(key)
    THEN [i \in 1..Len(poseImages) |->
            IF poseImages[i].key = PropertyKey(key)
            THEN [key |-> PropertyKey(key), url |-> url]
            ELSE poseImages[i]]
    ELSE Append(poseImages, [key |-> PropertyKey(key), url |-> url])

\* Object.keys(obj).
Keys(poseImages) == [i \in 1..Len(poseImages) |-> poseImages[i].key]

\* Object.values(obj)[0].
FirstValue(poseImages) ==
    IF Len(poseImages) = 0 THEN NullImage ELSE poseImages[1].url

\* ---------------------------------------------------------- derived values
\* useMemo displayImageUrl, as a function of the state it reads.
displayImageUrlOf(model, history, index, poseIndex, catalog) ==
    IF Len(history) = 0 THEN model
    ELSE IF index < 0 \/ index >= Len(history) THEN model
    ELSE LET currentLayer == history[index + 1]
             poseInstruction == At(catalog, poseIndex)
             cached == Get(currentLayer.poseImages, poseInstruction)
         IN  IF cached # NullImage THEN cached
             ELSE FirstValue(currentLayer.poseImages)

displayImageUrl ==
    displayImageUrlOf(modelImageUrl, outfitHistory, currentOutfitIndex,
                      currentPoseIndex, poseInstructions)

\* useMemo availablePoseKeys.
availablePoseKeys ==
    IF Len(outfitHistory) = 0 THEN <<>>
    ELSE IF currentOutfitIndex >= Len(outfitHistory) THEN <<>>
    ELSE Keys(outfitHistory[currentOutfitIndex + 1].poseImages)

\* useMemo activeGarmentIds: ids of the garments of layers 0..cursor.
activeGarmentIds ==
    {outfitHistory[i].garment.id :
        i \in {j \in 1..Len(outfitHistory) :
                 j <= currentOutfitIndex + 1
                 /\ outfitHistory[j].garment # NullGarment}}

\* The values a handler created in the current render has closed over.
Closure ==
    [displayImageUrl    |-> displayImageUrl,
     isLoading          |-> isLoading,
     outfitHistory      |-> outfitHistory,
     currentOutfitIndex |-> currentOutfitIndex,
     currentPoseIndex   |-> currentPoseIndex,
     poseInstructions   |-> poseInstructions]

\* The state at the moment an operation is invoked, kept with the Gateway
\* call it issues so that properties can refer to it (not read by the code).
Snapshot ==
    [outfitHistory      |-> outfitHistory,
     currentOutfitIndex |-> currentOutfitIndex,
     currentPoseIndex   |-> currentPoseIndex,
     poseInstructions   |-> poseInstructions,
     wardrobe           |-> wardrobe,
     displayImageUrl    |-> displayImageUrl,
     pending            |-> Cardinality(calls),
     nSessions          |-> nSessions]

\* ------------------------------------------------- record of the last step
\* No removal to remember.
NoUndo == [none |-> TRUE]

\* What removeLastGarment is about to undo: the state before the removal.
\* idle tells whether nothing was outstanding (no Gateway call, no fetch).
UndoPoint ==
    [outfitHistory      |-> outfitHistory,
     currentOutfitIndex |-> currentOutfitIndex,
     currentPoseIndex   |-> currentPoseIndex,
     displayImageUrl    |-> displayImageUrl,
     garmentId          |->
         IF /\ currentOutfitIndex > 0
            /\ currentOutfitIndex < Len(outfitHistory)
            /\ outfitHistory[currentOutfitIndex + 1].garment # NullGarment
         THEN outfitHistory[currentOutfitIndex + 1].garment.id
         ELSE "",
     nCalls             |-> nCalls,
     idle               |-> calls = {} /\ fetches = {} /\ ~isLoading]

\* The removal a step is the continuation of: a removal stays remembered
\* through the click on the removed garment's tile and is consumed by the
\* handleGarmentSelect run that follows.
Undone(path, id) ==
    CASE path = "removeLastGarment" -> UndoPoint
      [] path = "garmentClick" ->
           IF /\ last.path = "removeLastGarment"
              /\ id = last.undone.garmentId
           THEN last.undone ELSE NoUndo
      [] path \in {"applyGarment:cached", "applyGarment:gateway"} ->
           IF /\ last.path \in {"removeLastGarment", "garmentClick"}
              /\ last.undone # NoUndo
              /\ id = last.undone.garmentId
           THEN last.undone ELSE NoUndo
      [] OTHER -> NoUndo

\* Last conjunct of every action: a step that changed the program or what
\* is outstanding is recorded by the code path it took, a step that changed
\* nothing is not.  id is the garment id the step is about ("" for none).
Record(path, id) ==
    last' = IF program' = program
            THEN last
            ELSE LET undone == Undone(path, id)
                 IN  [path   |-> IF path = "garmentClick" /\ undone = NoUndo
                                 THEN "other" ELSE path,
                      undone |-> undone]

\* The path handleGarmentSelect took in this step.
GarmentSelectPath ==
    IF nCalls' # nCalls THEN "applyGarment:gateway"
    ELSE IF currentOutfitIndex' # currentOutfitIndex
    THEN "applyGarment:cached" ELSE "other"

\* The path handlePoseSelect took in this step.
PoseSelectPath ==
    IF nCalls' # nCalls THEN "selectPose:gateway" ELSE "selectPose:cached"

\* ----------------------------------------------------------------- initial
Mounted ==
    /\ modelImageUrl = NullImage
    /\ outfitHistory = <<>>
    /\ currentOutfitIndex = 0
    /\ isLoading = FALSE
    /\ error = NullError
    /\ currentPoseIndex = 0
    /\ poseInstructions = DEFAULT_POSE_INSTRUCTIONS
    /\ wardrobe = defaultWardrobe
    /\ calls = {}
    /\ fetches = {}
    /\ crashed = FALSE
    /\ nCalls = 0
    /\ nUploads = 0
    /\ nSessions = 0
    /\ last = [path |-> "other", undone |-> NoUndo]

Init == budget \in Budgets /\ Mounted

\* The dressing screen (Canvas, OutfitStack, WardrobePanel) is rendered.
MainAppShown == ~crashed /\ modelImageUrl # NullImage

\* The Canvas controls (pose and background menus) are rendered.
ControlsShown == MainAppShown /\ displayImageUrl # NullImage

\* A Gateway call leaves: the request is outstanding until GatewayResolve.
\* op is the handler that issued it; the other fields are the values the
\* code after the await reads from its closure; base is the image sent.
IssueCall(op, index, poseInstruction, garmentInfo, prevPoseIndex, base) ==
    /\ nCalls < budget.calls
    /\ nCalls' = nCalls + 1
    /\ calls' = calls \cup
         {[id                 |-> nCalls + 1,
           op                 |-> op,
           currentOutfitIndex |-> index,
           poseInstruction    |-> poseInstruction,
           garmentInfo        |-> garmentInfo,
           prevPoseIndex      |-> prevPoseIndex,
           base               |-> base,
           inv                |-> Snapshot]}

NoCall == UNCHANGED <<calls, nCalls>>

\* ---------------------------------------------------------------- handlers
\* App.handleModelFinalized(url).
handleModelFinalized(url) ==
    /\ modelImageUrl' = url
    /\ outfitHistory' =
         <<[garment    |-> NullGarment,
            poseImages |-> Put(<<>>, At(poseInstructions, 0), url)]>>
    /\ currentOutfitIndex' = 0
    /\ UNCHANGED <<isLoading, error, currentPoseIndex, poseInstructions,
                   wardrobe, calls, nCalls>>

\* handleStartOver without the reset of the pose catalog.
handleStartOver_KeepsCatalog ==
    /\ modelImageUrl' = NullImage
    /\ outfitHistory' = <<>>
    /\ currentOutfitIndex' = 0
    /\ isLoading' = FALSE
    /\ error' = NullError
    /\ currentPoseIndex' = 0
    /\ poseInstructions' = poseInstructions
    /\ wardrobe' = defaultWardrobe
    /\ NoCall

\* App.handleStartOver().
handleStartOver ==
    /\ modelImageUrl' = NullImage
    /\ outfitHistory' = <<>>
    /\ currentOutfitIndex' = 0
    /\ isLoading' = FALSE
    /\ error' = NullError
    /\ currentPoseIndex' = 0
    /\ poseInstructions' = DEFAULT_POSE_INSTRUCTIONS
    /\ wardrobe' = defaultWardrobe
    /\ NoCall

\* App.handleGarmentSelect(garmentFile, garmentInfo), up to its await.
\* cl is the closure of the render the handler was created in; the updater
\* prev => prev + 1 reads the state current when it is applied.
handleGarmentSelect(cl, garmentInfo) ==
    IF cl.displayImageUrl = NullImage \/ cl.isLoading
    THEN UNCHANGED <<appState, calls, nCalls>>
    ELSE LET nextIndex == cl.currentOutfitIndex + 1
             hasNext   == nextIndex < Len(cl.outfitHistory)
             nextLayer == cl.outfitHistory[nextIndex + 1]
         IN  IF /\ hasNext
                /\ nextLayer.garment # NullGarment
                /\ nextLayer.garment.id = garmentInfo.id
             THEN /\ currentOutfitIndex' = currentOutfitIndex + 1
                  /\ currentPoseIndex' = 0
                  /\ UNCHANGED <<modelImageUrl, outfitHistory, isLoading,
                                 error, poseInstructions, wardrobe>>
                  /\ NoCall
             ELSE /\ error' = NullError
                  /\ isLoading' = TRUE
                  /\ IssueCall("applyGarment", cl.currentOutfitIndex,
                               At(cl.poseInstructions, cl.currentPoseIndex),
                               garmentInfo, cl.currentPoseIndex,
                               cl.displayImageUrl)
                  /\ UNCHANGED <<modelImageUrl, outfitHistory,
                                 currentOutfitIndex, currentPoseIndex,
                                 poseInstructions, wardrobe>>

\* handleRemoveLastGarment without the reset of the pose index.
handleRemoveLastGarment_KeepsPose ==
    IF currentOutfitIndex > 0
    THEN /\ currentOutfitIndex' = currentOutfitIndex - 1
         /\ UNCHANGED <<modelImageUrl, outfitHistory, isLoading, error,
                        currentPoseIndex, poseInstructions, wardrobe>>
         /\ NoCall
    ELSE UNCHANGED <<appState, calls, nCalls>>

\* App.handleRemoveLastGarment().
handleRemoveLastGarment ==
    IF currentOutfitIndex > 0
    THEN /\ currentOutfitIndex' = currentOutfitIndex - 1
         /\ currentPoseIndex' = 0
         /\ UNCHANGED <<modelImageUrl, outfitHistory, isLoading, error,
                        poseInstructions, wardrobe>>
         /\ NoCall
    ELSE UNCHANGED <<appState, calls, nCalls>>

\* handlePoseSelect without the look-up of the pose in the current layer:
\* every change of pose goes to the Gateway.
handlePoseSelect_IgnoresCache(newIndex) ==
    IF isLoading \/ Len(outfitHistory) = 0 \/ newIndex = currentPoseIndex
    THEN UNCHANGED <<appState, calls, nCalls>>
    ELSE IF currentOutfitIndex >= Len(outfitHistory)
    THEN UNCHANGED <<appState, calls, nCalls>>
    ELSE LET poseInstruction == At(poseInstructions, newIndex)
             currentLayer    == outfitHistory[currentOutfitIndex + 1]
             baseImageForPoseChange == FirstValue(currentLayer.poseImages)
         IN  IF baseImageForPoseChange = NullImage
             THEN UNCHANGED <<appState, calls, nCalls>>
             ELSE /\ error' = NullError
                  /\ isLoading' = TRUE
                  /\ currentPoseIndex' = newIndex
                  /\ IssueCall("selectPose", currentOutfitIndex,
                               poseInstruction, NullGarment,
                               currentPoseIndex, baseImageForPoseChange)
                  /\ UNCHANGED <<modelImageUrl, outfitHistory,
                                 currentOutfitIndex, poseInstructions,
                                 wardrobe>>

\* App.handlePoseSelect(newIndex), up to its await.  Reading poseImages of
\* a layer that does not exist throws in the handler: nothing is set.
handlePoseSelect(newIndex) ==
    IF isLoading \/ Len(outfitHistory) = 0 \/ newIndex = currentPoseIndex
    THEN UNCHANGED <<appState, calls, nCalls>>
    ELSE IF currentOutfitIndex >= Len(outfitHistory)
    THEN UNCHANGED <<appState, calls, nCalls>>
    ELSE LET poseInstruction == At(poseInstructions, newIndex)
             currentLayer    == outfitHistory[currentOutfitIndex + 1]
             baseImageForPoseChange == FirstValue(currentLayer.poseImages)
         IN  IF Get(currentLayer.poseImages, poseInstruction) # NullImage
             THEN /\ currentPoseIndex' = newIndex
                  /\ UNCHANGED <<modelImageUrl, outfitHistory,
                                 currentOutfitIndex, isLoading, error,
                                 poseInstructions, wardrobe>>
                  /\ NoCall
             ELSE IF baseImageForPoseChange = NullImage
             THEN UNCHANGED <<appState, calls, nCalls>>
             ELSE /\ error' = NullError
                  /\ isLoading' = TRUE
                  /\ currentPoseIndex' = newIndex
                  /\ IssueCall("selectPose", currentOutfitIndex,
                               poseInstruction, NullGarment,
                               currentPoseIndex, baseImageForPoseChange)
                  /\ UNCHANGED <<modelImageUrl, outfitHistory,
                                 currentOutfitIndex, poseInstructions,
                                 wardrobe>>

\* handleCustomPoseGenerate comparing the prompt with the catalog entries
\* as they are written (no toLowerCase).
handleCustomPoseGenerate_CaseSensitive(posePrompt) ==
    LET trimmedPrompt == trim(posePrompt)
        existingIndex ==
            findIndex([i \in 1..Len(poseInstructions) |->
                          poseInstructions[i] = trimmedPrompt])
    IN  IF trimmedPrompt = "" \/ isLoading \/ displayImageUrl = NullImage
        THEN UNCHANGED <<appState, calls, nCalls>>
        ELSE IF existingIndex # -1
        THEN handlePoseSelect(existingIndex)
        ELSE IF currentOutfitIndex >= Len(outfitHistory)
        THEN UNCHANGED <<appState, calls, nCalls>>
        ELSE LET currentLayer == outfitHistory[currentOutfitIndex + 1]
                 baseImageForPoseChange ==
                     FirstValue(currentLayer.poseImages)
             IN  IF baseImageForPoseChange = NullImage
                 THEN UNCHANGED <<appState, calls, nCalls>>
                 ELSE /\ error' = NullError
                      /\ isLoading' = TRUE
                      /\ poseInstructions' =
                           Append(poseInstructions, trimmedPrompt)
                      /\ currentPoseIndex' = Len(poseInstructions)
                      /\ IssueCall("customPose", currentOutfitIndex,
                                   trimmedPrompt, NullGarment,
                                   currentPoseIndex, baseImageForPoseChange)
                      /\ UNCHANGED <<modelImageUrl, outfitHistory,
                                     currentOutfitIndex, wardrobe>>

\* App.handleCustomPoseGenerate(posePrompt), up to its await.
handleCustomPoseGenerate(posePrompt) ==
    LET trimmedPrompt == trim(posePrompt)
        existingIndex ==
            findIndex([i \in 1..Len(poseInstructions) |->
                          toLowerCase(poseInstructions[i]) =
                              toLowerCase(trimmedPrompt)])
    IN  IF trimmedPrompt = "" \/ isLoading \/ displayImageUrl = NullImage
        THEN UNCHANGED <<appState, calls, nCalls>>
        ELSE IF existingIndex # -1
        THEN handlePoseSelect(existingIndex)
        ELSE IF currentOutfitIndex >= Len(outfitHistory)
        THEN UNCHANGED <<appState, calls, nCalls>>
        ELSE LET currentLayer == outfitHistory[currentOutfitIndex + 1]
                 baseImageForPoseChange ==
                     FirstValue(currentLayer.poseImages)
             IN  IF baseImageForPoseChange = NullImage
                 THEN UNCHANGED <<appState, calls, nCalls>>
                 ELSE /\ error' = NullError
                      /\ isLoading' = TRUE
                      /\ poseInstructions' =
                           Append(poseInstructions, trimmedPrompt)
                      /\ currentPoseIndex' = Len(poseInstructions)
                      /\ IssueCall("customPose", currentOutfitIndex,
                                   trimmedPrompt, NullGarment,
                                   currentPoseIndex, baseImageForPoseChange)
                      /\ UNCHANGED <<modelImageUrl, outfitHistory,
                                     currentOutfitIndex, wardrobe>>

\* App.handleBackgroundChange(prompt) and App.handleBackgroundImageUpload
\* (file), up to their await; op tells them apart.
changeBackground(op) ==
    IF isLoading \/ displayImageUrl = NullImage
    THEN UNCHANGED <<appState, calls, nCalls>>
    ELSE /\ error' = NullError
         /\ isLoading' = TRUE
         /\ IssueCall(op, currentOutfitIndex,
                      At(poseInstructions, currentPoseIndex), NullGarment,
                      currentPoseIndex, displayImageUrl)
         /\ UNCHANGED <<modelImageUrl, outfitHistory, currentOutfitIndex,
                        currentPoseIndex, poseInstructions, wardrobe>>

handleBackgroundChange == changeBackground("backgroundPrompt")

handleBackgroundImageUpload == changeBackground("backgroundFile")

\* ------------------------------------------------- Gateway call resolutions
\* lib/utils.getFriendlyErrorMessage(err, context): the failure, whatever its
\* kind, is surfaced as one human-readable string; the context tells the
\* operations apart.
getFriendlyErrorMessage(context) == context

\* applyGarmentSucceeded with the history cut one layer too early
\* (slice(0, currentOutfitIndex)).
applyGarmentSucceeded_CutsCurrentLayer(c, newImageUrl) ==
    LET newLayer ==
            [garment    |-> c.garmentInfo,
             poseImages |-> Put(<<>>, c.poseInstruction, newImageUrl)]
        found ==
            findIndex([i \in 1..Len(wardrobe) |->
                          wardrobe[i].id = c.garmentInfo.id])
    IN  /\ outfitHistory' =
             Append(slice0(outfitHistory, c.currentOutfitIndex), newLayer)
        /\ currentOutfitIndex' = currentOutfitIndex + 1
        /\ wardrobe' = IF found # -1
                       THEN wardrobe
                       ELSE Append(wardrobe, c.garmentInfo)
        /\ isLoading' = FALSE
        /\ UNCHANGED <<modelImageUrl, error, currentPoseIndex,
                       poseInstructions, crashed>>

\* applyGarmentSucceeded without the look-up of the garment in the
\* wardrobe: the applied garment is always appended.
applyGarmentSucceeded_AlwaysAppends(c, newImageUrl) ==
    LET newLayer ==
            [garment    |-> c.garmentInfo,
             poseImages |-> Put(<<>>, c.poseInstruction, newImageUrl)]
    IN  /\ outfitHistory' =
             Append(slice0(outfitHistory, c.currentOutfitIndex + 1), newLayer)
        /\ currentOutfitIndex' = currentOutfitIndex + 1
        /\ wardrobe' = Append(wardrobe, c.garmentInfo)
        /\ isLoading' = FALSE
        /\ UNCHANGED <<modelImageUrl, error, currentPoseIndex,
                       poseInstructions, crashed>>

\* The code after the await in handleGarmentSelect, Gateway success.
applyGarmentSucceeded(c, newImageUrl) ==
    LET newLayer ==
            [garment    |-> c.garmentInfo,
             poseImages |-> Put(<<>>, c.poseInstruction, newImageUrl)]
        found ==
            findIndex([i \in 1..Len(wardrobe) |->
                          wardrobe[i].id = c.garmentInfo.id])
    IN  /\ outfitHistory' =
             Append(slice0(outfitHistory, c.currentOutfitIndex + 1), newLayer)
        /\ currentOutfitIndex' = currentOutfitIndex + 1
        /\ wardrobe' = IF found # -1
                       THEN wardrobe
                       ELSE Append(wardrobe, c.garmentInfo)
        /\ isLoading' = FALSE
        /\ UNCHANGED <<modelImageUrl, error, currentPoseIndex,
                       poseInstructions, crashed>>

\* The catch and finally blocks of handleGarmentSelect.
applyGarmentFailed(c) ==
    /\ error' = getFriendlyErrorMessage("Failed to apply garment")
    /\ isLoading' = FALSE
    /\ UNCHANGED <<modelImageUrl, outfitHistory, currentOutfitIndex,
                   currentPoseIndex, poseInstructions, wardrobe, crashed>>

\* The updater of handlePoseSelect and handleCustomPoseGenerate:
\* newHistory[currentOutfitIndex].poseImages[key] = newImageUrl.  When the
\* history current at resolution has no layer at the captured index the
\* updater throws while React renders: the update is never committed and
\* the tree is torn down.
recordPoseImage(c, newImageUrl) ==
    IF c.currentOutfitIndex < Len(outfitHistory)
    THEN /\ outfitHistory' =
              [outfitHistory EXCEPT ![c.currentOutfitIndex + 1].poseImages =
                  Put(@, c.poseInstruction, newImageUrl)]
         /\ isLoading' = FALSE
         /\ UNCHANGED <<modelImageUrl, currentOutfitIndex, error,
                        currentPoseIndex, poseInstructions, wardrobe, crashed>>
    ELSE /\ crashed' = TRUE
         /\ UNCHANGED appState

\* The code after the await in handlePoseSelect, Gateway success.
selectPoseSucceeded(c, newImageUrl) == recordPoseImage(c, newImageUrl)

\* selectPoseFailed without the revert of the optimistic pose index.
selectPoseFailed_KeepsOptimisticIndex(c) ==
    /\ error' = getFriendlyErrorMessage("Failed to change pose")
    /\ isLoading' = FALSE
    /\ UNCHANGED <<modelImageUrl, outfitHistory, currentOutfitIndex,
                   currentPoseIndex, poseInstructions, wardrobe, crashed>>

\* The catch and finally blocks of handlePoseSelect.
selectPoseFailed(c) ==
    /\ error' = getFriendlyErrorMessage("Failed to change pose")
    /\ currentPoseIndex' = c.prevPoseIndex
    /\ isLoading' = FALSE
    /\ UNCHANGED <<modelImageUrl, outfitHistory, currentOutfitIndex,
                   poseInstructions, wardrobe, crashed>>

\* The code after the await in handleCustomPoseGenerate, Gateway success.
customPoseSucceeded(c, newImageUrl) == recordPoseImage(c, newImageUrl)

\* The catch and finally blocks of handleCustomPoseGenerate.
customPoseFailed(c) ==
    LET notThePrompt ==
            [i \in 1..Len(poseInstructions) |->
                poseInstructions[i] # c.poseInstruction]
    IN  /\ error' = getFriendlyErrorMessage("Failed to create custom pose")
        /\ currentPoseIndex' = c.prevPoseIndex
        /\ poseInstructions' = filter(poseInstructions, notThePrompt)
        /\ isLoading' = FALSE
        /\ UNCHANGED <<modelImageUrl, outfitHistory, currentOutfitIndex,
                       wardrobe, crashed>>

\* The code after the await in handleBackgroundChange and
\* handleBackgroundImageUpload, Gateway success: a deep copy of the history
\* current at resolution with one entry of one layer replaced.
changeBackgroundSucceeded(c, newImageUrl) ==
    /\ outfitHistory' =
         IF /\ c.currentOutfitIndex < Len(outfitHistory)
            /\ Truthy(c.poseInstruction)
         THEN [outfitHistory EXCEPT ![c.currentOutfitIndex + 1].poseImages =
                  Put(@, c.poseInstruction, newImageUrl)]
         ELSE outfitHistory
    /\ isLoading' = FALSE
    /\ UNCHANGED <<modelImageUrl, currentOutfitIndex, error,
                   currentPoseIndex, poseInstructions, wardrobe, crashed>>

\* The catch and finally blocks of the two background handlers.
changeBackgroundFailed(c) ==
    /\ error' = getFriendlyErrorMessage("Failed to change background")
    /\ isLoading' = FALSE
    /\ UNCHANGED <<modelImageUrl, outfitHistory, currentOutfitIndex,
                   currentPoseIndex, poseInstructions, wardrobe, crashed>>

\* ----------------------------------------------------------------- actions
\* StartScreen hands over the standardized model image.
FinalizeModel ==
    /\ ~crashed
    /\ modelImageUrl = NullImage
    /\ nSessions < budget.sessions
    /\ nSessions' = nSessions + 1
    /\ handleModelFinalized(ModelImage(nSessions + 1))
    /\ UNCHANGED <<fetches, crashed, nUploads, budget>>
    /\ Record("other", "")

\* Canvas: the Start Over button (never disabled).
StartOver ==
    /\ MainAppShown
    /\ handleStartOver
    /\ UNCHANGED <<fetches, crashed, nUploads, nSessions, budget>>
    /\ Record("other", "")

\* The name given to a new outstanding fetch: the smallest one not in use.
FreeFetchId ==
    CHOOSE i \in 1..budget.fetches :
        /\ \A f \in fetches : f.id # i
        /\ \A j \in 1..(i - 1) : \E f \in fetches : f.id = j

\* WardrobePanel.handleGarmentClick(item), up to its await of urlToFile.
\* The fetch keeps the onGarmentSelect prop of the render of the click.
GarmentClick(item) ==
    /\ MainAppShown
    /\ IF isLoading \/ item.id \in activeGarmentIds
       THEN UNCHANGED fetches
       ELSE /\ Cardinality(fetches) < budget.fetches
            /\ fetches' = fetches \cup
                 {[id      |-> FreeFetchId,
                   item    |-> item,
                   closure |-> Closure]}
    /\ UNCHANGED <<appState, calls, crashed, nCalls, nUploads, nSessions,
                   budget>>
    /\ Record("garmentClick", item.id)

\* urlToFile resolved: handleGarmentClick calls the onGarmentSelect it
\* captured at the click.
FetchSucceeded(f) ==
    /\ ~crashed
    /\ fetches' = fetches \ {f}
    /\ handleGarmentSelect(f.closure, f.item)
    /\ UNCHANGED <<crashed, nUploads, nSessions, budget>>
    /\ Record(GarmentSelectPath, f.item.id)

\* urlToFile threw: only the panel's own error text is set.
FetchFailed(f) ==
    /\ ~crashed
    /\ fetches' = fetches \ {f}
    /\ UNCHANGED <<appState, calls, crashed, nCalls, nUploads, nSessions,
                   budget>>
    /\ Record("other", "")

\* WardrobePanel.handleFileChange: an uploaded image goes straight to
\* onGarmentSelect of the current render.
GarmentUpload ==
    /\ MainAppShown
    /\ nUploads < budget.uploads
    /\ nUploads' = nUploads + 1
    /\ handleGarmentSelect(Closure, [id |-> CustomId(nUploads + 1)])
    /\ UNCHANGED <<fetches, crashed, nSessions, budget>>
    /\ Record(GarmentSelectPath, CustomId(nUploads + 1))

\* OutfitStack: remove the last garment.
RemoveLastGarment ==
    /\ MainAppShown
    /\ handleRemoveLastGarment
    /\ UNCHANGED <<fetches, crashed, nUploads, nSessions, budget>>
    /\ Record("removeLastGarment", "")

\* Canvas: a click on entry index of the pose menu.
SelectPose(index) ==
    /\ ControlsShown
    /\ index < Len(poseInstructions)
    /\ handlePoseSelect(index)
    /\ UNCHANGED <<fetches, crashed, nUploads, nSessions, budget>>
    /\ Record(PoseSelectPath, "")

\* Canvas.handlePreviousPose: the index it passes to onSelectPose, or -1
\* when it returns without calling it.
previousPoseTarget ==
    LET n == Len(poseInstructions)
        currentPoseInstruction == At(poseInstructions, currentPoseIndex)
        currentIndexInAvailable ==
            indexOf(availablePoseKeys, currentPoseInstruction)
        prevIndexInAvailable ==
            (currentIndexInAvailable - 1 + Len(availablePoseKeys))
                % Len(availablePoseKeys)
    IN  IF isLoading \/ Len(availablePoseKeys) <= 1 THEN -1
        ELSE IF currentIndexInAvailable = -1
        THEN (currentPoseIndex - 1 + n) % n
        ELSE indexOf(poseInstructions,
                     At(availablePoseKeys, prevIndexInAvailable))

\* Canvas.handleNextPose: the index it passes to onSelectPose, or -1.
nextPoseTarget ==
    LET n == Len(poseInstructions)
        currentPoseInstruction == At(poseInstructions, currentPoseIndex)
        currentIndexInAvailable ==
            indexOf(availablePoseKeys, currentPoseInstruction)
        nextIndexInAvailable == currentIndexInAvailable + 1
    IN  IF isLoading THEN -1
        ELSE IF currentIndexInAvailable = -1 \/ Len(availablePoseKeys) = 0
        THEN (currentPoseIndex + 1) % n
        ELSE IF nextIndexInAvailable < Len(availablePoseKeys)
        THEN indexOf(poseInstructions,
                     At(availablePoseKeys, nextIndexInAvailable))
        ELSE (currentPoseIndex + 1) % n

\* Canvas: the previous-pose arrow.
PreviousPose ==
    /\ ControlsShown
    /\ IF previousPoseTarget = -1
       THEN UNCHANGED <<appState, calls, nCalls>>
       ELSE handlePoseSelect(previousPoseTarget)
    /\ UNCHANGED <<fetches, crashed, nUploads, nSessions, budget>>
    /\ Record(PoseSelectPath, "")

\* Canvas: the next-pose arrow.
NextPose ==
    /\ ControlsShown
    /\ IF nextPoseTarget = -1
       THEN UNCHANGED <<appState, calls, nCalls>>
       ELSE handlePoseSelect(nextPoseTarget)
    /\ UNCHANGED <<fetches, crashed, nUploads, nSessions, budget>>
    /\ Record(PoseSelectPath, "")

\* The path handleCustomPoseGenerate took in this step.
CustomPosePath(text) ==
    IF poseInstructions' # poseInstructions THEN "customPose:new"
    ELSE IF nCalls' # nCalls THEN "customPose:existing:gateway"
    ELSE "customPose:existing:cached"

\* Canvas.handleCustomPoseSubmit: the text box of the pose menu.
CustomPoseSubmit(text) ==
    /\ ControlsShown
    /\ IF trim(text) # "" /\ ~isLoading
       THEN handleCustomPoseGenerate(trim(text))
       ELSE UNCHANGED <<appState, calls, nCalls>>
    /\ UNCHANGED <<fetches, crashed, nUploads, nSessions, budget>>
    /\ Record(CustomPosePath(text), "")

\* Canvas: a preset or typed background prompt.
BackgroundChange ==
    /\ ControlsShown
    /\ handleBackgroundChange
    /\ UNCHANGED <<fetches, crashed, nUploads, nSessions, budget>>
    /\ Record("other", "")

\* Canvas.handleBgFileChange: an uploaded background image.
BackgroundImageUpload ==
    /\ ControlsShown
    /\ handleBackgroundImageUpload
    /\ UNCHANGED <<fetches, crashed, nUploads, nSessions, budget>>
    /\ Record("other", "")

\* The Gateway returns an image for call c.
GatewaySucceeded(c) ==
    /\ ~crashed
    /\ calls' = calls \ {c}
    /\ CASE c.op = "applyGarment" ->
              applyGarmentSucceeded(c, GatewayImage(c.id))
         [] c.op = "selectPose" ->
              selectPoseSucceeded(c, GatewayImage(c.id))
         [] c.op = "customPose" ->
              customPoseSucceeded(c, GatewayImage(c.id))
         [] OTHER ->
              changeBackgroundSucceeded(c, GatewayImage(c.id))
    /\ UNCHANGED counters
    /\ UNCHANGED fetches
    /\ Record("other", "")

\* The Gateway call c throws (policy block, stopped generation, no image,
\* transport failure).
GatewayFailed(c) ==
    /\ ~crashed
    /\ calls' = calls \ {c}
    /\ CASE c.op = "applyGarment" -> applyGarmentFailed(c)
         [] c.op = "selectPose"   -> selectPoseFailed(c)
         [] c.op = "customPose"   -> customPoseFailed(c)
         [] OTHER                 -> changeBackgroundFailed(c)
    /\ UNCHANGED counters
    /\ UNCHANGED fetches
    /\ Record("other", "")

\* The Gateway call c settles after the tree was torn down: the code after
\* the await runs, and its setters act on an unmounted component, which
\* changes nothing.
GatewayResolvedUnmounted(c) ==
    /\ crashed
    /\ calls' = calls \ {c}
    /\ UNCHANGED appState
    /\ UNCHANGED crashed
    /\ UNCHANGED counters
    /\ UNCHANGED fetches
    /\ Record("other", "")

Next ==
    \/ FinalizeModel
    \/ StartOver
    \/ \E i \in 1..Len(wardrobe) :
          wardrobe[i].id \in ClickableIds /\ GarmentClick(wardrobe[i])
    \/ \E f \in fetches : FetchSucceeded(f)
    \/ \E f \in fetches : FetchFailed(f)
    \/ GarmentUpload
    \/ RemoveLastGarment
    \/ \E index \in PoseChoices : SelectPose(index)
    \/ PreviousPose
    \/ NextPose
    \/ \E text \in PosePrompts : CustomPoseSubmit(text)
    \/ BackgroundChange
    \/ BackgroundImageUpload
    \/ \E c \in calls : GatewaySucceeded(c)
    \/ \E c \in calls : GatewayFailed(c)
    \/ \E c \in calls : GatewayResolvedUnmounted(c)

Spec == Init /\ [][Next]_vars

\* Garments applied one after the other: a tile is clicked or a garment is
\* uploaded only when nothing is outstanding, every fetch and every Gateway
\* call succeeds, and nothing else is done.
NothingOutstanding == calls = {} /\ fetches = {}

NextApply ==
    \/ FinalizeModel
    \/ \E i \in 1..Len(wardrobe) :
          NothingOutstanding /\ GarmentClick(wardrobe[i])
    \/ \E f \in fetches : FetchSucceeded(f)
    \/ NothingOutstanding /\ GarmentUpload
    \/ \E c \in calls : GatewaySucceeded(c)

\* One session in which every Gateway call of the budget can be an apply:
\* the garments come from the wardrobe tiles and from uploads.
InitApply ==
    /\ budget = [calls    |-> MaxCalls,
                 fetches  |-> MaxFetches - 1,
                 uploads  |-> MaxUploads,
                 sessions |-> MaxSessions - 1]
    /\ Mounted

SpecApply == InitApply /\ [][NextApply]_vars

\* One user at the poses of one session, one thing at a time: garments come
\* from wardrobe tiles, poses from the menu, the last garment is removed and
\* the previous-pose arrow is pressed, each only when nothing is
\* outstanding, and every fetch and every Gateway call succeeds.
NextNavigate ==
    \/ FinalizeModel
    \/ \E i \in 1..Len(wardrobe) :
          /\ NothingOutstanding
          /\ wardrobe[i].id \in ClickableIds
          /\ GarmentClick(wardrobe[i])
    \/ \E f \in fetches : FetchSucceeded(f)
    \/ NothingOutstanding /\ RemoveLastGarment
    \/ \E index \in PoseChoices : NothingOutstanding /\ SelectPose(index)
    \/ NothingOutstanding /\ PreviousPose
    \/ \E c \in calls : GatewaySucceeded(c)

\* One session with one Gateway call more than the long budget.
InitNavigate ==
    /\ budget = [calls    |-> MaxCalls + 1,
                 fetches  |-> MaxFetches - 1,
                 uploads  |-> MaxUploads - 1,
                 sessions |-> MaxSessions - 1]
    /\ Mounted

SpecNavigate == InitNavigate /\ [][NextNavigate]_vars

\* ------------------------------------------------------ Gateway responses
\* A GenerateContentResponse, as far as handleApiResponse reads it:
\* promptFeedback?.blockReason, and candidates (optional) with their
\* content?.parts (optional) and finishReason (optional).  An optional
\* string that is absent is Undefined; an optional array carries a flag.
BlockReasons == {Undefined, "SAFETY"}

FinishReasons == {Undefined, "STOP", "SAFETY"}

\* part.inlineData of a part that is not an image (a text part).
NoInlineData == [absent |-> TRUE]

\* Part j of candidate i: an image part carries data of its own, so that
\* two image parts of a response are never the same image.
Part(i, j, isImage) ==
    [inlineData |-> IF isImage
                    THEN [mimeType |-> "image/png", data |-> <<i, j>>]
                    ELSE NoInlineData]

Contents(i) ==
    {[hasParts |-> FALSE, parts |-> <<>>]} \cup
    {[hasParts |-> TRUE,
      parts    |-> [j \in 1..Len(shape) |-> Part(i, j, shape[j])]] :
        shape \in UNION {[1..n -> BOOLEAN] : n \in 0..MaxParts}}

Candidates(i) ==
    {[content |-> content, finishReason |-> finishReason] :
        content \in Contents(i), finishReason \in FinishReasons}

RECURSIVE CandidateLists(_)
CandidateLists(n) ==
    IF n = 0 THEN {<<>>}
    ELSE {Append(list, candidate) :
            list \in CandidateLists(n - 1), candidate \in Candidates(n)}

Responses ==
    {[blockReason |-> blockReason, candidates |-> candidates] :
        blockReason \in BlockReasons,
        candidates \in
            {[present |-> FALSE, items |-> <<>>]} \cup
            {[present |-> TRUE, items |-> list] :
                list \in UNION {CandidateLists(n) : n \in 0..MaxCandidates}}}

\* What handleApiResponse does with a response: it returns a data URL
\* (kind "image", detail the inlineData the URL is built from) or throws an
\* Error (kind "blocked", "stopped" or "noImage", detail the reason its
\* message is built from).
Outcome(kind, detail) == [kind |-> kind, detail |-> detail]

\* candidate.content?.parts?.find(part => part.inlineData): 0-based index of
\* the first part with inlineData, -1 when there is none.
imagePartIndex(candidate) ==
    IF ~candidate.content.hasParts THEN -1
    ELSE findIndex([j \in 1..Len(candidate.content.parts) |->
                       candidate.content.parts[j].inlineData # NoInlineData])

\* handleApiResponse with the finish reason looked at before the candidates'
\* parts.
handleApiResponse_FinishReasonFirst(response) ==
    LET items == response.candidates.items
        firstImage[i \in 1..(Len(items) + 1)] ==
            IF i > Len(items) THEN NoInlineData
            ELSE IF imagePartIndex(items[i]) # -1
            THEN items[i].content.parts[imagePartIndex(items[i]) + 1]
                     .inlineData
            ELSE firstImage[i + 1]
        finishReason ==
            IF Len(items) = 0 THEN Undefined ELSE items[1].finishReason
    IN  IF Truthy(response.blockReason)
        THEN Outcome("blocked", response.blockReason)
        ELSE IF Truthy(finishReason) /\ finishReason # "STOP"
        THEN Outcome("stopped", finishReason)
        ELSE IF firstImage[1] # NoInlineData
        THEN Outcome("image", firstImage[1])
        ELSE Outcome("noImage", Undefined)

\* geminiService.handleApiResponse(response).
handleApiResponse(response) ==
    LET items == response.candidates.items
        firstImage[i \in 1..(Len(items) + 1)] ==
            IF i > Len(items) THEN NoInlineData
            ELSE IF imagePartIndex(items[i]) # -1
            THEN items[i].content.parts[imagePartIndex(items[i]) + 1]
                     .inlineData
            ELSE firstImage[i + 1]
        finishReason ==
            IF Len(items) = 0 THEN Undefined ELSE items[1].finishReason
    IN  IF Truthy(response.blockReason)
        THEN Outcome("blocked", response.blockReason)
        ELSE IF firstImage[1] # NoInlineData
        THEN Outcome("image", firstImage[1])
        ELSE IF Truthy(finishReason) /\ finishReason # "STOP"
        THEN Outcome("stopped", finishReason)
        ELSE Outcome("noImage", Undefined)

\* A response has arrived at the mounted application.
InitResponse ==
    /\ budget = [calls    |-> MaxCalls,
                 fetches  |-> MaxFetches,
                 uploads  |-> MaxUploads,
                 sessions |-> MaxSessions]
    /\ modelImageUrl = NullImage
    /\ outfitHistory = <<>>
    /\ currentOutfitIndex = 0
    /\ isLoading = FALSE
    /\ error = NullError
    /\ currentPoseIndex = 0
    /\ poseInstructions = DEFAULT_POSE_INSTRUCTIONS
    /\ wardrobe = defaultWardrobe
    /\ calls = {}
    /\ fetches = {}
    /\ crashed = FALSE
    /\ nCalls = 0
    /\ nUploads = 0
    /\ nSessions = 0
    /\ \E response \in Responses :
          last = [path     |-> "response",
                  undone   |-> NoUndo,
                  response |-> response]

\* handleApiResponse is applied to the response; the last step records what
\* it returned or threw.
ApiResponse ==
    /\ last.path = "response"
    /\ last' = [path     |-> "handleApiResponse",
                undone   |-> NoUndo,
                response |-> last.response,
                result   |-> handleApiResponse(last.response)]
    /\ UNCHANGED program

NextResponse == ApiResponse

SpecResponse == InitResponse /\ [][NextResponse]_vars

\* ------------------------------------------------------------------ claims
\* C1: single-flight.  In every reachable state at most one Gateway call is
\* outstanding.
C1_SingleFlight == Cardinality(calls) <= 1

\* C2: cursor validity.  Whenever the outfit history is non-empty,
\* 0 <= currentOutfitIndex < length(outfitHistory).
C2_CursorValid ==
    Len(outfitHistory) > 0 =>
        currentOutfitIndex >= 0 /\ currentOutfitIndex < Len(outfitHistory)

\* C3: pose index validity.  In every reachable state
\* 0 <= currentPoseIndex < length(poseInstructions).
C3_PoseIndexValid ==
    currentPoseIndex >= 0 /\ currentPoseIndex < Len(poseInstructions)

\* C4: N successful applies.  Starting from a freshly finalized model, after
\* N applyGarment calls that each went to the Gateway and succeeded, one
\* after the other, currentOutfitIndex is N and the history has N + 1
\* layers.  Under SpecApply every Gateway call is an apply and the calls that
\* are no longer outstanding have succeeded.
C4_AppliesCounted ==
    modelImageUrl # NullImage =>
        LET N == nCalls - Cardinality(calls)
        IN  currentOutfitIndex = N /\ Len(outfitHistory) = N + 1

\* Three applies have succeeded, one after the other.
C4_Witness ==
    /\ modelImageUrl # NullImage
    /\ calls = {}
    /\ nCalls = MaxCalls
    /\ currentOutfitIndex = MaxCalls

\* The program is idle: the busy flag is clear and no Gateway call is
\* outstanding.
Idle == ~isLoading /\ calls = {}

\* The layer right after the cursor exists and holds the garment with this id.
LayerAheadHolds(id) ==
    /\ currentOutfitIndex + 1 < Len(outfitHistory)
    /\ outfitHistory[currentOutfitIndex + 2].garment # NullGarment
    /\ outfitHistory[currentOutfitIndex + 2].garment.id = id

\* C5: cached reapply.  When applyGarment is invoked while idle with an item
\* whose id is the garment id of the layer at currentOutfitIndex + 1, no
\* Gateway call is made, the busy flag is not set, the history is unchanged,
\* the cursor advances by exactly 1 and the pose index becomes 0.  A garment
\* chosen in the wardrobe panel reaches applyGarment when its fetch resolves.
C5_CachedReapply ==
    [][\A f \in fetches :
          (Idle /\ LayerAheadHolds(f.item.id) /\ FetchSucceeded(f)) =>
              /\ nCalls' = nCalls
              /\ calls' = calls
              /\ isLoading' = FALSE
              /\ outfitHistory' = outfitHistory
              /\ currentOutfitIndex' = currentOutfitIndex + 1
              /\ currentPoseIndex' = 0]_vars

\* C6: undo/redo round trip.  From an idle state with cursor k > 0,
\* removeLastGarment immediately followed by applyGarment with the garment of
\* layer k makes no Gateway call and restores the prior state: the cursor is
\* k again, the history is unchanged and the displayed image is the image
\* displayed before the removal.  last.undone is the state before the
\* removal; it is kept only while the steps that follow are the click on the
\* removed garment's tile and the applyGarment that click leads to.
C6_UndoRedoRoundTrip ==
    (/\ last.path \in {"applyGarment:cached", "applyGarment:gateway"}
     /\ last.undone # NoUndo
     /\ last.undone.idle) =>
        /\ nCalls = last.undone.nCalls
        /\ currentOutfitIndex = last.undone.currentOutfitIndex
        /\ outfitHistory = last.undone.outfitHistory
        /\ displayImageUrl = last.undone.displayImageUrl

\* catalog[t] is a key of the poseImages of the layer under the cursor.
PoseCached(t) ==
    /\ t >= 0
    /\ t < Len(poseInstructions)
    /\ currentOutfitIndex < Len(outfitHistory)
    /\ \E i \in 1..Len(outfitHistory[currentOutfitIndex + 1].poseImages) :
          outfitHistory[currentOutfitIndex + 1].poseImages[i].key =
              poseInstructions[t + 1]

\* C7: selectPose(t) invoked while the busy flag is clear, with t different
\* from the current pose index and catalog[t] already a key of the current
\* layer's poseImages, makes no Gateway call, does not set the busy flag,
\* sets the pose index to t in the same step and leaves history, cursor,
\* catalog and error unchanged.
C7_SelectCachedPose ==
    [][\A t \in PoseChoices :
          (~isLoading /\ t # currentPoseIndex /\ PoseCached(t)
                      /\ SelectPose(t)) =>
              /\ nCalls' = nCalls
              /\ calls' = calls
              /\ isLoading' = FALSE
              /\ currentPoseIndex' = t
              /\ outfitHistory' = outfitHistory
              /\ currentOutfitIndex' = currentOutfitIndex
              /\ poseInstructions' = poseInstructions
              /\ error' = error]_vars

\* A pose that was already cached has just been selected while idle.
C7_Witness ==
    /\ last.path = "selectPose:cached"
    /\ Idle
    /\ currentPoseIndex # 0
    /\ PoseCached(currentPoseIndex)

MatchesCatalog(text) ==
    /\ trim(text) # ""
    /\ ~isLoading
    /\ displayImageUrl # NullImage
    /\ \E i \in 1..Len(poseInstructions) :
          toLowerCase(poseInstructions[i]) = toLowerCase(trim(text))

\* The index (from 0) of the first catalog entry the text matches.
MatchedIndex(text) ==
    (CHOOSE i \in 1..Len(poseInstructions) :
        /\ toLowerCase(poseInstructions[i]) = toLowerCase(trim(text))
        /\ \A j \in 1..(i - 1) :
               toLowerCase(poseInstructions[j]) # toLowerCase(trim(text)))
    - 1

\* C9: generateCustomPose with a text that, trimmed, equals an existing
\* catalog entry ignoring case never appends to the catalog and behaves
\* exactly as selectPose invoked with that entry's index; the resolution of
\* the Gateway call selectPose may issue leaves the catalog unchanged too.
C9_ExistingPoseDelegates ==
    [][/\ \A text \in PosePrompts :
             (MatchesCatalog(text) /\ CustomPoseSubmit(text)) =>
                 /\ poseInstructions' = poseInstructions
                 /\ handlePoseSelect(MatchedIndex(text))
       /\ \A c \in calls :
             (c.op = "selectPose"
              /\ (GatewaySucceeded(c) \/ GatewayFailed(c))) =>
                 poseInstructions' = poseInstructions]_vars

\* A custom pose text that matches a catalog entry has just been submitted
\* and has changed the pose.
C9_Witness ==
    last.path \in {"customPose:existing:gateway", "customPose:existing:cached"}

\* The calls the two changeBackground variants issue.
BackgroundOps == {"backgroundPrompt", "backgroundFile"}

\* The entries of poseImages other than the one under key.
OtherEntries(poseImages, key) ==
    {poseImages[i] : i \in {j \in 1..Len(poseImages) :
                              poseImages[j].key # key}}

\* C10: a successful changeBackground (prompt or file) changes exactly one
\* cache entry: poseImages[catalog[poseIndex]] of the layer that was current
\* when it was invoked is set to the returned image; every other pose entry
\* of that layer, every other layer, the history length, the cursor, the
\* pose index and the catalog are unchanged.
C10_BackgroundChangesOneEntry ==
    [][\A c \in calls :
          (c.op \in BackgroundOps /\ GatewaySucceeded(c)) =>
              LET k   == c.inv.currentOutfitIndex + 1
                  key == PropertyKey(At(c.inv.poseInstructions,
                                        c.inv.currentPoseIndex))
              IN  /\ Len(outfitHistory') = Len(outfitHistory)
                  /\ k <= Len(outfitHistory)
                  /\ Get(outfitHistory'[k].poseImages, key) =
                         GatewayImage(c.id)
                  /\ OtherEntries(outfitHistory'[k].poseImages, key) =
                         OtherEntries(outfitHistory[k].poseImages, key)
                  /\ outfitHistory'[k].garment = outfitHistory[k].garment
                  /\ \A i \in 1..Len(outfitHistory) :
                         i # k => outfitHistory'[i] = outfitHistory[i]
                  /\ currentOutfitIndex' = currentOutfitIndex
                  /\ currentPoseIndex' = currentPoseIndex
                  /\ poseInstructions' = poseInstructions]_vars

\* C11: when the Gateway call issued by applyGarment or by changeBackground
\* fails, history, cursor, pose index, catalog and wardrobe are exactly as
\* they were when the operation was invoked, and the error slot is non-empty.
C11_FailureRestoresInvocationState ==
    [][\A c \in calls :
          (c.op \in {"applyGarment"} \cup BackgroundOps /\ GatewayFailed(c)) =>
              /\ outfitHistory' = c.inv.outfitHistory
              /\ currentOutfitIndex' = c.inv.currentOutfitIndex
              /\ currentPoseIndex' = c.inv.currentPoseIndex
              /\ poseInstructions' = c.inv.poseInstructions
              /\ wardrobe' = c.inv.wardrobe
              /\ error' # NullError
              /\ error' # ""]_vars

\* The step is one of the mutating operations the user can invoke:
\* applyGarment (an upload, or a wardrobe click whose fetch has resolved),
\* removeLastGarment, selectPose (menu or arrows), generateCustomPose,
\* changeBackground (prompt or file).
MutatingOperation ==
    \/ RemoveLastGarment
    \/ GarmentUpload
    \/ \E f \in fetches : FetchSucceeded(f)
    \/ \E t \in PoseChoices : SelectPose(t)
    \/ PreviousPose
    \/ NextPose
    \/ \E text \in PosePrompts : CustomPoseSubmit(text)
    \/ BackgroundChange
    \/ BackgroundImageUpload

\* C13: while a Gateway call is pending, invoking applyGarment,
\* removeLastGarment, selectPose, generateCustomPose or changeBackground is
\* ignored: none of history, cursor, pose index, catalog or wardrobe changes.
C13_IgnoredWhilePending ==
    [][(calls # {} /\ MutatingOperation) =>
          UNCHANGED <<outfitHistory, currentOutfitIndex, currentPoseIndex,
                      poseInstructions, wardrobe>>]_vars

\* C14: startOver, invoked in any reachable state, makes no Gateway call and
\* leaves the session in the initial state: history empty, cursor 0, pose
\* index 0, catalog equal to the six default pose instructions, wardrobe
\* equal to the seed list, error empty, busy flag false, model image absent.
C14_StartOverResets ==
    [][StartOver =>
          /\ nCalls' = nCalls
          /\ calls' = calls
          /\ outfitHistory' = <<>>
          /\ currentOutfitIndex' = 0
          /\ currentPoseIndex' = 0
          /\ poseInstructions' = DEFAULT_POSE_INSTRUCTIONS
          /\ Len(poseInstructions') = 6
          /\ wardrobe' = defaultWardrobe
          /\ error' = NullError
          /\ isLoading' = FALSE
          /\ modelImageUrl' = NullImage]_vars

\* startOver has been invoked in a session that had a custom pose in its
\* catalog, a garment applied and a Gateway call pending; the session is
\* in the initial state.
C14_Witness ==
    /\ nSessions >= 1
    /\ modelImageUrl = NullImage
    /\ calls # {}
    /\ \E c \in calls :
          /\ c.inv.currentOutfitIndex >= 1
          /\ Len(c.inv.poseInstructions) > 6
    /\ outfitHistory = <<>>
    /\ poseInstructions = DEFAULT_POSE_INSTRUCTIONS
    /\ wardrobe = defaultWardrobe
    /\ ~isLoading

\* C15: in every reachable state the outfit history is empty if and only if
\* no model is established (modelImageUrl is absent).
C15_HistoryEmptyIffNoModel ==
    (outfitHistory = <<>>) <=> (modelImageUrl = NullImage)

\* C16: layer garment invariant.  In every reachable state with non-empty
\* history, the layer at index 0 has no garment and every layer at index
\* >= 1 has a non-null garment.
C16_LayerGarment ==
    \A i \in 1..Len(outfitHistory) :
        (outfitHistory[i].garment = NullGarment) <=> (i = 1)

\* C17: root layer invariant.  In every reachable state with an established
\* model, the root layer's poseImages contains the key for the initial pose
\* instruction (catalog[0]) and that entry maps to the standardized model
\* image passed to finalizeModel.
C17_RootLayerKeepsModelImage ==
    modelImageUrl # NullImage =>
        /\ Len(outfitHistory) >= 1
        /\ \E i \in 1..Len(outfitHistory[1].poseImages) :
              /\ outfitHistory[1].poseImages[i].key =
                     PropertyKey(At(poseInstructions, 0))
              /\ outfitHistory[1].poseImages[i].url = modelImageUrl

\* C19: removeLastGarment with cursor > 0 decrements the cursor by exactly
\* 1, sets the pose index to 0, makes no Gateway call and leaves history,
\* catalog and wardrobe unchanged; with cursor = 0 it changes nothing at all.
C19_RemoveLastGarment ==
    [][RemoveLastGarment =>
          IF currentOutfitIndex > 0
          THEN /\ currentOutfitIndex' = currentOutfitIndex - 1
               /\ currentPoseIndex' = 0
               /\ nCalls' = nCalls
               /\ calls' = calls
               /\ UNCHANGED <<outfitHistory, poseInstructions, wardrobe>>
          ELSE UNCHANGED <<appState, calls, nCalls>>]_vars

\* removeLastGarment has just stepped the cursor back from a layer that was
\* shown in a pose other than the first: the layer is still in the history
\* and the pose index is 0.
C19_Witness ==
    /\ last.path = "removeLastGarment"
    /\ last.undone # NoUndo
    /\ last.undone.currentPoseIndex > 0
    /\ currentOutfitIndex = last.undone.currentOutfitIndex - 1
    /\ currentPoseIndex = 0
    /\ Len(outfitHistory) > currentOutfitIndex + 1

\* C18: truncate-on-push.  On Gateway success of applyGarment the new
\* history consists of layers [0..k] of the old history (k the cursor when
\* the operation was invoked) followed by exactly one new layer
\* {garment: item, poseImages: {catalog[pose index at invocation]: result}};
\* layers beyond k are gone, and the cursor is the last index of the new
\* history.
C18_TruncateOnPush ==
    [][\A c \in calls :
          (c.op = "applyGarment" /\ GatewaySucceeded(c)) =>
              LET k   == c.inv.currentOutfitIndex
                  key == At(c.inv.poseInstructions, c.inv.currentPoseIndex)
                  newLayer ==
                      [garment    |-> c.garmentInfo,
                       poseImages |-> Put(<<>>, key, GatewayImage(c.id))]
              IN  /\ outfitHistory' =
                         Append(slice0(outfitHistory, k + 1), newLayer)
                  /\ Len(outfitHistory') = k + 2
                  /\ currentOutfitIndex' = Len(outfitHistory') - 1]_vars

\* C20: on Gateway success of selectPose(t) the returned image is stored
\* under key catalog[t] in the poseImages of the layer that was current when
\* the operation was invoked; no other key of that layer and no other layer
\* changes, the history length and the cursor are unchanged, and the pose
\* index is t after resolution.
C20_SelectPoseStoresOneEntry ==
    [][\A c \in calls :
          (c.op = "selectPose" /\ GatewaySucceeded(c)) =>
              LET k   == c.inv.currentOutfitIndex + 1
                  key == PropertyKey(c.poseInstruction)
                  t   == indexOf(c.inv.poseInstructions, c.poseInstruction)
              IN  /\ Len(outfitHistory') = Len(outfitHistory)
                  /\ k <= Len(outfitHistory)
                  /\ Get(outfitHistory'[k].poseImages, key) =
                         GatewayImage(c.id)
                  /\ OtherEntries(outfitHistory'[k].poseImages, key) =
                         OtherEntries(outfitHistory[k].poseImages, key)
                  /\ outfitHistory'[k].garment = outfitHistory[k].garment
                  /\ \A i \in 1..Len(outfitHistory) :
                         i # k => outfitHistory'[i] = outfitHistory[i]
                  /\ currentOutfitIndex' = currentOutfitIndex
                  /\ currentPoseIndex' = t]_vars

\* C12: the busy flag always clears.  Every Gateway call eventually
\* resolves, and the resolution of a call is what clears the flag: once
\* every call that was issued has resolved, isLoading is false.  (In a state
\* where no call is outstanding and isLoading is true, nothing is left that
\* would clear the flag: it stays true forever.)
C12_BusyFlagClears ==
    calls = {} => ~isLoading

\* C21: when the Gateway call issued by generateCustomPose (text not in the
\* catalog) fails, the catalog is exactly the sequence it was before the
\* call, the pose index equals its value before the call, no layer's
\* poseImages has changed, and the error slot is non-empty.
C21_CustomPoseFailureReverts ==
    [][\A c \in calls :
          (c.op = "customPose" /\ GatewayFailed(c)) =>
              /\ poseInstructions' = c.inv.poseInstructions
              /\ currentPoseIndex' = c.inv.currentPoseIndex
              /\ \A i \in 1..Len(c.inv.outfitHistory) :
                     /\ i <= Len(outfitHistory')
                     /\ outfitHistory'[i].poseImages =
                            c.inv.outfitHistory[i].poseImages
              /\ error' # NullError
              /\ error' # ""]_vars

\* The images held by the layer the cursor points at.
CurrentLayerImages ==
    IF currentOutfitIndex < Len(outfitHistory)
    THEN LET poseImages == outfitHistory[currentOutfitIndex + 1].poseImages
         IN  {poseImages[i].url : i \in 1..Len(poseImages)}
    ELSE {}

\* C22: optimistic update.  From the moment selectPose(t) for an uncached
\* pose issues its Gateway call until that call resolves, the pose index
\* equals t, the busy flag is true, the history is unchanged, and the
\* displayed image is an existing image of the current layer (never absent).
C22_OptimisticPoseIndex ==
    \A c \in calls :
        c.op = "selectPose" =>
            /\ currentPoseIndex =
                   indexOf(c.inv.poseInstructions, c.poseInstruction)
            /\ isLoading
            /\ outfitHistory = c.inv.outfitHistory
            /\ displayImageUrl # NullImage
            /\ displayImageUrl \in CurrentLayerImages

\* C23: generateCustomPose with trimmed text T that matches no catalog entry
\* ignoring case.  While its Gateway call is pending the catalog is the old
\* catalog with T appended at the end and the pose index is the old catalog
\* length; on success the returned image is stored under key T in the layer
\* current at invocation, the catalog keeps T as its last entry, and no other
\* layer or key changes.
C23_CustomPoseAppends ==
    [][\A c \in calls :
          c.op = "customPose" =>
              /\ poseInstructions =
                     Append(c.inv.poseInstructions, c.poseInstruction)
              /\ currentPoseIndex = Len(c.inv.poseInstructions)
              /\ GatewaySucceeded(c) =>
                     LET k   == c.inv.currentOutfitIndex + 1
                         key == PropertyKey(c.poseInstruction)
                     IN  /\ Len(outfitHistory') = Len(outfitHistory)
                         /\ k <= Len(outfitHistory)
                         /\ Get(outfitHistory'[k].poseImages, key) =
                                GatewayImage(c.id)
                         /\ OtherEntries(outfitHistory'[k].poseImages, key) =
                                OtherEntries(outfitHistory[k].poseImages, key)
                         /\ outfitHistory'[k].garment =
                                outfitHistory[k].garment
                         /\ \A i \in 1..Len(outfitHistory) :
                                i # k => outfitHistory'[i] = outfitHistory[i]
                         /\ poseInstructions' =
                                Append(c.inv.poseInstructions,
                                       c.poseInstruction)]_vars

\* The catalog entries that are keys of the current layer's poseImages, in
\* catalog order (the "available" subsequence of the navigation rules).
AvailableInCatalogOrder ==
    IF currentOutfitIndex >= Len(outfitHistory) THEN <<>>
    ELSE LET poseImages == outfitHistory[currentOutfitIndex + 1].poseImages
         IN  filter(poseInstructions,
                    [i \in 1..Len(poseInstructions) |->
                        \E j \in 1..Len(poseImages) :
                            poseImages[j].key = poseInstructions[i]])

\* The cycleNext rule: the successor in the available subsequence, else
\* (poseIndex + 1) mod catalog length.
cycleNext ==
    LET A   == AvailableInCatalogOrder
        pos == indexOf(A, At(poseInstructions, currentPoseIndex))
    IN  IF pos # -1 /\ pos + 1 < Len(A)
        THEN indexOf(poseInstructions, At(A, pos + 1))
        ELSE (currentPoseIndex + 1) % Len(poseInstructions)

\* The cyclePrevious rule: -1 (no-op) when the available subsequence has at
\* most one entry; the predecessor in it, wrapping from first to last; else
\* (poseIndex - 1 + catalog length) mod catalog length.
cyclePrevious ==
    LET A   == AvailableInCatalogOrder
        pos == indexOf(A, At(poseInstructions, currentPoseIndex))
    IN  IF Len(A) <= 1 THEN -1
        ELSE IF pos # -1
        THEN indexOf(poseInstructions, At(A, (pos - 1 + Len(A)) % Len(A)))
        ELSE (currentPoseIndex - 1 + Len(poseInstructions))
                 % Len(poseInstructions)

\* C24: next-pose navigation follows the cycleNext rule for every catalog,
\* pose index and current layer: the index handleNextPose passes to
\* selectPose is the one the rule gives.
C24_NextPoseFollowsCycleNext ==
    (ControlsShown /\ ~isLoading /\ currentOutfitIndex < Len(outfitHistory))
        => nextPoseTarget = cycleNext

\* C25: previous-pose navigation follows the cyclePrevious rule: the index
\* handlePreviousPose passes to selectPose is the one the rule gives, and it
\* calls nothing when the rule is a no-op.
C25_PreviousPoseFollowsCyclePrevious ==
    (ControlsShown /\ ~isLoading /\ currentOutfitIndex < Len(outfitHistory))
        => previousPoseTarget = cyclePrevious

\* C26: backward navigation never generates.  In every reachable state,
\* invoking previous-pose navigation (handlePreviousPose followed by the
\* selectPose it triggers) issues no Gateway call.
C26_PreviousPoseNeverGenerates ==
    [][PreviousPose => (nCalls' = nCalls /\ calls' = calls)]_vars

\* C27: the busy flag tracks the Gateway.  In every reachable state
\* isLoading is true if and only if a Gateway call issued by the Controller
\* is outstanding, including after startOver is invoked while a call is
\* pending.
C27_BusyIffCallOutstanding ==
    isLoading <=> (calls # {})

\* The call c was issued in a session that startOver has ended since: the
\* session it was issued in had a model, and now there is no model or a
\* later session's model.
IssuedBeforeStartOver(c) ==
    /\ c.inv.displayImageUrl # NullImage
    /\ (modelImageUrl = NullImage \/ nSessions > c.inv.nSessions)

\* C28: session isolation across startOver.  A Gateway call issued before
\* startOver that resolves (success or failure) after startOver changes none
\* of history, cursor, pose index, catalog, wardrobe or error of the reset
\* session, nor of a new session started by a later finalizeModel.
C28_SessionIsolation ==
    [][\A c \in calls :
          (IssuedBeforeStartOver(c)
              /\ (GatewaySucceeded(c) \/ GatewayFailed(c))) =>
                 UNCHANGED <<outfitHistory, currentOutfitIndex,
                             currentPoseIndex, poseInstructions, wardrobe,
                             error>>]_vars

\* C29: catalog de-duplication invariant.  In every reachable state the
\* pose catalog contains no two entries that are equal ignoring case, and
\* its first six entries are the default instructions in their original
\* order.
C29_CatalogDeduplicated ==
    /\ Len(poseInstructions) >= 6
    /\ SubSeq(poseInstructions, 1, 6) = DEFAULT_POSE_INSTRUCTIONS
    /\ \A i \in 1..Len(poseInstructions) :
           \A j \in (i + 1)..Len(poseInstructions) :
               toLowerCase(poseInstructions[i]) #
                   toLowerCase(poseInstructions[j])

\* A custom pose is in the catalog, and a prompt that differs from it only
\* in case has just been submitted from another pose: it was taken as a
\* navigation to the existing entry, the catalog did not grow.
C29_Witness ==
    /\ Len(poseInstructions) = 7
    /\ last.path = "customPose:existing:cached"
    /\ currentPoseIndex = 6
    /\ \E text \in PosePrompts :
          /\ trim(text) # poseInstructions[7]
          /\ toLowerCase(trim(text)) = toLowerCase(poseInstructions[7])

\* C30: wardrobe growth.  After an applyGarment that went to the Gateway
\* succeeds, the wardrobe contains an item with the applied item's id; the
\* wardrobe never contains two items with the same id; and the wardrobe is
\* unchanged by a failed applyGarment, by a cached reapply, and by every
\* operation other than applyGarment and startOver.
C30_WardrobeGrowth ==
    [][/\ \A c \in calls :
             (c.op = "applyGarment" /\ GatewaySucceeded(c)) =>
                 \E i \in 1..Len(wardrobe') :
                     wardrobe'[i].id = c.garmentInfo.id
       /\ \A i \in 1..Len(wardrobe') :
             \A j \in (i + 1)..Len(wardrobe') :
                 wardrobe'[i].id # wardrobe'[j].id
       /\ wardrobe' # wardrobe =>
             \/ StartOver
             \/ \E c \in calls :
                   c.op = "applyGarment" /\ GatewaySucceeded(c)]_vars

\* An uploaded garment was applied through the Gateway and is in the
\* wardrobe, once; it was then removed and re-applied from its tile without
\* a Gateway call, and the wardrobe did not grow again.
C30_Witness ==
    /\ Len(wardrobe) = Len(defaultWardrobe) + 1
    /\ wardrobe[Len(wardrobe)].id = CustomId(1)
    /\ last.path = "applyGarment:cached"
    /\ currentOutfitIndex >= 1
    /\ currentOutfitIndex < Len(outfitHistory)
    /\ outfitHistory[currentOutfitIndex + 1].garment # NullGarment
    /\ outfitHistory[currentOutfitIndex + 1].garment.id = CustomId(1)

\* C31: Gateway response classification.  For every response,
\* handleApiResponse either returns one image or raises exactly one error,
\* decided in this order: a block reason is present -> policy-block error
\* (even when a candidate carries an image); otherwise some candidate has an
\* inline-data part -> the first such part of the first candidate that has
\* one (even when the finish reason is not STOP); otherwise the first
\* candidate's finish reason is present and not STOP -> stopped-generation
\* error; otherwise the no-image error.
C31_ResponseClassification ==
    last.path = "handleApiResponse" =>
        LET response == last.response
            result   == last.result
            items    == response.candidates.items
            isImage  ==
                [i \in 1..Len(items) |->
                    [j \in 1..Len(items[i].content.parts) |->
                        items[i].content.parts[j].inlineData # NoInlineData]]
            hasImage ==
                [i \in 1..Len(items) |->
                    \E j \in 1..Len(isImage[i]) : isImage[i][j]]
        IN  IF response.blockReason # Undefined
            THEN /\ result.kind = "blocked"
                 /\ result.detail = response.blockReason
            ELSE IF \E i \in 1..Len(items) : hasImage[i]
            THEN LET i == CHOOSE i \in 1..Len(items) :
                              hasImage[i] /\ \A k \in 1..(i - 1) : ~hasImage[k]
                     j == CHOOSE j \in 1..Len(isImage[i]) :
                              isImage[i][j]
                              /\ \A k \in 1..(j - 1) : ~isImage[i][k]
                 IN  /\ result.kind = "image"
                     /\ result.detail = items[i].content.parts[j].inlineData
            ELSE IF /\ Len(items) > 0
                    /\ items[1].finishReason # Undefined
                    /\ items[1].finishReason # "STOP"
            THEN /\ result.kind = "stopped"
                 /\ result.detail = items[1].finishReason
            ELSE result.kind = "noImage"

\* handleApiResponse was applied to a response without block reason whose
\* first candidate stopped for SAFETY and has no image, and whose second
\* candidate has a text part followed by an image part: it returned that
\* image.
C31_Witness ==
    /\ last.path = "handleApiResponse"
    /\ last.response.blockReason = Undefined
    /\ Len(last.response.candidates.items) = 2
    /\ last.response.candidates.items[1].finishReason = "SAFETY"
    /\ imagePartIndex(last.response.candidates.items[1]) = -1
    /\ imagePartIndex(last.response.candidates.items[2]) = 1
    /\ last.result.kind = "image"
    /\ last.result.detail.data = <<2, 2>>

\* The image base was stored under key p in the layer that was current when
\* the call c was issued.
BaseStoredUnder(c, p) ==
    /\ c.inv.currentOutfitIndex < Len(c.inv.outfitHistory)
    /\ Get(c.inv.outfitHistory[c.inv.currentOutfitIndex + 1].poseImages, p)
           = c.base

\* C32: cache key integrity.  For every layer and every key p of its
\* poseImages the stored image was rendered for pose p: it is the model
\* image stored under catalog[0] by finalizeModel, or the result of a repose
\* call for instruction p, or the result of an apply-garment or
\* re-background call whose base image was itself stored under key p in the
\* layer current at invocation.  Stated on the steps that store an image:
\* every entry a step stores is of one of the three kinds.
C32_CacheKeyIntegrity ==
    [][/\ FinalizeModel =>
             \A i \in 1..Len(outfitHistory') :
                 \A j \in 1..Len(outfitHistory'[i].poseImages) :
                     /\ outfitHistory'[i].poseImages[j].key =
                            PropertyKey(At(poseInstructions', 0))
                     /\ outfitHistory'[i].poseImages[j].url = modelImageUrl'
       /\ \A c \in calls :
             GatewaySucceeded(c) =>
                 \A i \in 1..Len(outfitHistory') :
                     \A j \in 1..Len(outfitHistory'[i].poseImages) :
                         LET entry == outfitHistory'[i].poseImages[j]
                         IN  entry.url = GatewayImage(c.id) =>
                                 IF c.op \in {"selectPose", "customPose"}
                                 THEN entry.key = c.poseInstruction
                                 ELSE BaseStoredUnder(c, entry.key)]_vars

\* C33: label matches image when idle.  Whenever no Gateway call is pending
\* and the history is non-empty, the current layer's poseImages contains the
\* key catalog[poseIndex], so the displayed image is the one cached for the
\* selected pose.
C33_LabelMatchesImageWhenIdle ==
    (calls = {} /\ ~isLoading /\ Len(outfitHistory) > 0) =>
        /\ currentOutfitIndex < Len(outfitHistory)
        /\ currentPoseIndex < Len(poseInstructions)
        /\ \E j \in 1..Len(outfitHistory[currentOutfitIndex + 1].poseImages) :
              LET entry == outfitHistory[currentOutfitIndex + 1].poseImages[j]
              IN  /\ entry.key = At(poseInstructions, currentPoseIndex)
                  /\ entry.url = displayImageUrl

\* Every layer of the history has at least one entry in its poseImages.
EveryLayerHasAnImage ==
    \A i \in 1..Len(outfitHistory) : Len(outfitHistory[i].poseImages) >= 1

\* Object.values(currentLayer.poseImages)[0] as handlePoseSelect and
\* handleCustomPoseGenerate read it: absent when there is no current layer.
BaseImageForPoseChange ==
    IF currentOutfitIndex < Len(outfitHistory)
    THEN FirstValue(outfitHistory[currentOutfitIndex + 1].poseImages)
    ELSE NullImage

\* C34: every layer in the history has at least one entry in poseImages in
\* every reachable state, so whenever a model is established the derived
\* displayed image is defined (never absent) and selectPose /
\* generateCustomPose always find a base image for generation.
C34_BaseImageAlwaysFound ==
    /\ EveryLayerHasAnImage
    /\ modelImageUrl # NullImage =>
           /\ displayImageUrl # NullImage
           /\ BaseImageForPoseChange # NullImage

====
